---- MODULE Spec2Model ----
(***************************************************************************)
(* persist-ssh (src/persist_ssh/main.py): session-name resolution, the     *)
(* remote command runners, OS detection, the dtach installer and the       *)
(* single-call connect with its embedded remote shell script.              *)
(*                                                                         *)
(* Text is a sequence of atoms.  An atom is one character, or a literal    *)
(* chunk of the source that holds no whitespace ("~/.persist-ssh/").       *)
(***************************************************************************)
EXTENDS Integers, Sequences, FiniteSets, TLC

VARIABLES
    args,             \* argparse namespace of main()
    config,           \* the loaded configuration
    tmux,             \* what the local `tmux display-message` process does
    pc,               \* position of the Python program
    session_name,     \* main(): session_name, None before it is assigned
    output,           \* lines printed by the program, in order
    remoteLog,        \* ssh processes started by the program, in order
    fault,            \* exception that left main() unhandled, or "none"
    exitCode,         \* {} while running, {n} once the process has exited
    connectEnd,       \* how subprocess.run of connect_to_session ended
    spc,              \* position of the remote script of connect_to_session
    scriptTrace,      \* steps the remote script has executed, in order
    userShell,        \* $USER_SHELL of the remote script
    osRun,            \* what the OS-detection ssh process does
    install_commands, \* config['dtach_install_command']
    os_type,          \* install_dtach(): os_type
    retval,           \* install_dtach(): the value returned
    installRc,        \* {} or {exit status of the install ssh process}
    pairIds           \* session names of two successive connect calls

vars == <<args, config, tmux, pc, session_name, output, remoteLog, fault,
          exitCode, connectEnd, spc, scriptTrace, userShell, osRun,
          install_commands, os_type, retval, installRc, pairIds>>

scriptVars == <<spc, scriptTrace, userShell>>
installVars == <<osRun, install_commands, os_type, retval, installRc>>

-----------------------------------------------------------------------------
(* Bounds of the model *)

\* longest stdout of the tmux query
MaxTmuxLen == 2
\* longest session name given to the two connect calls
MaxIdLen == 3
\* most fragments concatenated into a remote OS identification text
MaxFrags == 2

-----------------------------------------------------------------------------
(* Python values *)

None == [some |-> FALSE, val |-> <<>>]
Some(x) == [some |-> TRUE, val |-> x]

\* truth value of an optional string: None and "" are falsy
Truthy(o) == o.some /\ o.val # <<>>

SeqsUpTo(S, n) == UNION {[1..k -> S] : k \in 0..n}

Whitespace == {" ", "\n", "\t"}

RECURSIVE lstrip(_)
lstrip(s) ==
    IF s = <<>> THEN s
    ELSE IF Head(s) \in Whitespace THEN lstrip(Tail(s)) ELSE s

RECURSIVE rstrip(_)
rstrip(s) ==
    IF s = <<>> THEN s
    ELSE IF s[Len(s)] \in Whitespace THEN rstrip(SubSeq(s, 1, Len(s) - 1)) ELSE s

\* str.strip()
strip(s) == rstrip(lstrip(s))

UpperCase == <<"A","B","C","D","E","F","G","H","I","J","K","L","M",
               "N","O","P","Q","R","S","T","U","V","W","X","Y","Z">>
LowerCase == <<"a","b","c","d","e","f","g","h","i","j","k","l","m",
               "n","o","p","q","r","s","t","u","v","w","x","y","z">>

lower_char(c) ==
    IF \E i \in 1..Len(UpperCase) : UpperCase[i] = c
    THEN LowerCase[CHOOSE i \in 1..Len(UpperCase) : UpperCase[i] = c]
    ELSE c

\* str.lower()
lower(s) == [i \in 1..Len(s) |-> lower_char(s[i])]

\* the `in` operator on strings: sub occurs in s
In(sub, s) ==
    \E i \in 1..(Len(s) - Len(sub) + 1) : SubSeq(s, i, i + Len(sub) - 1) = sub

-----------------------------------------------------------------------------
(* Configuration *)

DEFAULT_SESSION_NAME == <<"d","e","f","a","u","l","t">>

DEFAULT_INSTALL_COMMANDS ==
    [ubuntu |-> "sudo apt update && sudo apt install -y dtach",
     debian |-> "sudo apt update && sudo apt install -y dtach",
     redhat |-> "sudo yum install -y dtach || sudo dnf install -y dtach",
     arch   |-> "sudo pacman -S dtach",
     alpine |-> "sudo apk add dtach"]

\* config.get('session_from_tmux_pane', False)
config_session_from_tmux_pane(c) ==
    IF "session_from_tmux_pane" \in c.keys THEN c.session_from_tmux_pane ELSE FALSE

\* config.get('default_session_name', 'default')
config_default_session_name(c) ==
    IF "default_session_name" \in c.keys THEN c.default_session_name
    ELSE DEFAULT_SESSION_NAME

-----------------------------------------------------------------------------
(* Session name resolution *)

get_tmux_window_name(t) ==
    IF t.raised = "none" /\ t.returncode = 0 THEN Some(strip(t.stdout)) ELSE None

get_session_name_keeps_empty(c, override_name, t) ==
    IF Truthy(override_name) THEN override_name.val
    ELSE IF config_session_from_tmux_pane(c) /\ get_tmux_window_name(t).some
         THEN get_tmux_window_name(t).val
         ELSE config_default_session_name(c)

get_session_name(c, override_name, t) ==
    IF Truthy(override_name) THEN override_name.val
    ELSE IF config_session_from_tmux_pane(c) /\ Truthy(get_tmux_window_name(t))
         THEN get_tmux_window_name(t).val
         ELSE config_default_session_name(c)

\* main(): "Determine session name with --tmux flag override"
main_session_name(a, c, t) ==
    IF a.tmux
    THEN IF Truthy(get_tmux_window_name(t))
         THEN get_tmux_window_name(t).val
         ELSE config_default_session_name(c)
    ELSE get_session_name(c, a.session, t)

-----------------------------------------------------------------------------
(* Remote command runners *)

\* run_ssh_command: subprocess.run(..., check=True) with only
\* CalledProcessError handled
run_ssh_command(p) ==
    IF p.raised # "none"
    THEN [raised |-> p.raised, out |-> <<>>, ok |-> FALSE]
    ELSE IF p.returncode = 0
         THEN [raised |-> "none", out |-> strip(p.stdout), ok |-> TRUE]
         ELSE [raised |-> "none", out |-> strip(p.stderr), ok |-> FALSE]

\* one ssh process as the program started it
SshCommand(kind, tty, script) == [kind |-> kind, tty |-> tty, script |-> script]

\* exit status of the interpreter after an exception left main() unhandled
UnhandledExit(exc) == IF exc = "KeyboardInterrupt" THEN {130} ELSE {1}

u_b_u_n_t_u == <<"u","b","u","n","t","u">>
d_e_b_i_a_n == <<"d","e","b","i","a","n">>
r_h_e_l == <<"r","h","e","l">>
c_e_n_t_o_s == <<"c","e","n","t","o","s">>
f_e_d_o_r_a == <<"f","e","d","o","r","a">>
r_e_d_h_a_t == <<"r","e","d"," ","h","a","t">>
a_r_c_h == <<"a","r","c","h">>
a_l_p_i_n_e == <<"a","l","p","i","n","e">>

detect_remote_os_debian_first(r) ==
    IF ~r.ok THEN "unknown"
    ELSE LET out == lower(r.out) IN
         IF In(d_e_b_i_a_n, out) THEN "debian"
         ELSE IF In(u_b_u_n_t_u, out) THEN "ubuntu"
         ELSE IF In(r_h_e_l, out) \/ In(c_e_n_t_o_s, out)
                 \/ In(f_e_d_o_r_a, out) \/ In(r_e_d_h_a_t, out) THEN "redhat"
         ELSE IF In(a_r_c_h, out) THEN "arch"
         ELSE IF In(a_l_p_i_n_e, out) THEN "alpine"
         ELSE "unknown"

\* detect_remote_os, given what run_ssh_command returned
detect_remote_os(r) ==
    IF ~r.ok THEN "unknown"
    ELSE LET out == lower(r.out) IN
         IF In(u_b_u_n_t_u, out) THEN "ubuntu"
         ELSE IF In(d_e_b_i_a_n, out) THEN "debian"
         ELSE IF In(r_h_e_l, out) \/ In(c_e_n_t_o_s, out)
                 \/ In(f_e_d_o_r_a, out) \/ In(r_e_d_h_a_t, out) THEN "redhat"
         ELSE IF In(a_r_c_h, out) THEN "arch"
         ELSE IF In(a_l_p_i_n_e, out) THEN "alpine"
         ELSE "unknown"

-----------------------------------------------------------------------------
(* The remote script of connect_to_session *)

\* "mkdir -p ~/.persist-ssh"
MkdirLine == <<"mkdir", " ", "-p", " ", "~/.persist-ssh">>

\* f-string: exec dtach -A ~/.persist-ssh/{session_name} -e "^T" $USER_SHELL
AttachLine(name) ==
    <<"exec", " ", "dtach", " ", "-A", " ", "~/.persist-ssh/">> \o name
        \o <<" ", "-e", " ", "\"^T\"", " ", "$USER_SHELL">>

\* the ssh process of connect_to_session for one session name
connect_command(name) ==
    SshCommand("connect", TRUE, <<MkdirLine, AttachLine(name), AttachLine(name)>>)

\* field splitting of an unquoted command line by the remote sh
RECURSIVE ShellSplit(_, _, _)
ShellSplit(s, cur, acc) ==
    IF s = <<>> THEN (IF cur = <<>> THEN acc ELSE Append(acc, cur))
    ELSE IF Head(s) \in Whitespace
         THEN ShellSplit(Tail(s), <<>>, IF cur = <<>> THEN acc ELSE Append(acc, cur))
         ELSE ShellSplit(Tail(s), Append(cur, Head(s)), acc)

ShellWords(line) == ShellSplit(line, <<>>, <<>>)

\* the socket path dtach receives: the word after the first -A
DtachSocket(line) ==
    LET w == ShellWords(line)
        i == CHOOSE k \in 1..Len(w) :
                 /\ w[k] = <<"-A">>
                 /\ \A j \in 1..(k - 1) : w[j] # <<"-A">>
    IN  w[i + 1]

\* the session-storage path for a session identifier: directory plus name
SessionPath(name) == <<"~/.persist-ssh/">> \o name

PackageManagers == <<"apt", "yum", "dnf", "pacman", "apk">>

\* the if/elif chain of `command -v` tests: first available manager
SelectPackageManager(avail) ==
    IF \E i \in 1..Len(PackageManagers) : PackageManagers[i] \in avail
    THEN PackageManagers[CHOOSE i \in 1..Len(PackageManagers) :
             /\ PackageManagers[i] \in avail
             /\ \A j \in 1..(i - 1) : PackageManagers[j] \notin avail]
    ELSE "none"

-----------------------------------------------------------------------------
(* Inputs *)

Booleans == {TRUE, FALSE}

\* --session: not given, given empty, given
SessionOverrides == {None, Some(<<>>), Some(<<"d">>)}

ArgSets ==
    [session : SessionOverrides, list : Booleans, debug : Booleans, tmux : Booleans]

ConfigKeys == {"session_from_tmux_pane", "default_session_name"}

\* a configuration file may leave out either key; a key left out holds no value
Configs ==
    {c \in [keys : SUBSET ConfigKeys, session_from_tmux_pane : Booleans,
            default_session_name : {<<>>, <<"m">>}] :
        /\ "session_from_tmux_pane" \notin c.keys => ~c.session_from_tmux_pane
        /\ "default_session_name" \notin c.keys => c.default_session_name = <<>>}

Process(raised, returncode, stdout, stderr) ==
    [raised |-> raised, returncode |-> returncode, stdout |-> stdout, stderr |-> stderr]

TmuxChars == {"w", " ", "\n"}

\* tmux absent (FileNotFoundError), not in tmux (CalledProcessError), or a name
TmuxOutcomes ==
    {Process("FileNotFoundError", 0, <<>>, <<>>), Process("none", 1, <<>>, <<>>)}
    \cup {Process("none", 0, s, <<>>) : s \in SeqsUpTo(TmuxChars, MaxTmuxLen)}

StderrText == <<"e", "r", "r">>

\* the listing ssh process: cannot start, interrupted, transport or remote
\* failure, success
ListOutcomes ==
    {Process("FileNotFoundError", 0, <<>>, <<>>),
     Process("KeyboardInterrupt", 0, <<>>, <<>>),
     Process("none", 255, <<>>, StderrText),
     Process("none", 0, <<"N", "o">>, <<>>)}

NoProcess == Process("none", 0, <<>>, <<>>)
NoTable == [keys |-> {}, cmd |-> DEFAULT_INSTALL_COMMANDS]

-----------------------------------------------------------------------------
(* main() *)

Init ==
    /\ args \in ArgSets
    /\ config \in Configs
    /\ tmux \in TmuxOutcomes
    /\ pc = "start"
    /\ session_name = None
    /\ output = <<>>
    /\ remoteLog = <<>>
    /\ fault = "none"
    /\ exitCode = {}
    /\ connectEnd = "none"
    /\ spc = "idle"
    /\ scriptTrace = <<>>
    /\ userShell = "unset"
    /\ osRun = NoProcess
    /\ install_commands = NoTable
    /\ os_type = "undetected"
    /\ retval = "none"
    /\ installRc = {}
    /\ pairIds = <<>>

ListScript == <<<<"python3", " ", "-c", " ", "list-sockets">>>>

\* main() with --list: list_remote_sessions(args.host), then return
list_remote_sessions ==
    /\ pc = "start"
    /\ args.list
    /\ \E p \in ListOutcomes :
         LET r == run_ssh_command(p) IN
         /\ remoteLog' = IF p.raised = "FileNotFoundError" THEN remoteLog
                         ELSE Append(remoteLog, SshCommand("list", FALSE, ListScript))
         /\ IF r.raised # "none"
            THEN /\ fault' = r.raised
                 /\ exitCode' = UnhandledExit(r.raised)
                 /\ output' = output
            ELSE /\ fault' = fault
                 /\ exitCode' = {0}
                 /\ output' = Append(output, IF r.ok THEN "sessions"
                                             ELSE "Could not list sessions")
    /\ pc' = "exited"
    /\ UNCHANGED <<args, config, tmux, session_name, connectEnd, pairIds>>
    /\ UNCHANGED scriptVars
    /\ UNCHANGED installVars

\* main() without --list, up to the call of connect_to_session
resolve_session_name ==
    /\ pc = "start"
    /\ ~args.list
    /\ session_name' = Some(main_session_name(args, config, tmux))
    /\ output' = output
         \o (IF args.tmux /\ ~Truthy(get_tmux_window_name(tmux))
             THEN <<"Warning: Not in tmux or tmux not found, using default session name">>
             ELSE <<>>)
         \o (IF args.debug THEN <<"Session name">> ELSE <<>>)
         \o (IF args.debug /\ config_session_from_tmux_pane(config)
             THEN <<"Tmux window name">> ELSE <<>>)
    /\ pc' = "resolved"
    /\ UNCHANGED <<args, config, tmux, remoteLog, fault, exitCode, connectEnd, pairIds>>
    /\ UNCHANGED scriptVars
    /\ UNCHANGED installVars

connect_spawn_uncaught ==
    /\ pc = "resolved"
    /\ \E started \in Booleans :
         IF started
         THEN /\ remoteLog' = Append(remoteLog, connect_command(session_name.val))
              /\ pc' = "connecting"
              /\ spc' = "mkdir"
              /\ output' = output \o (IF args.debug THEN <<"Connecting", "Command">> ELSE <<>>)
              /\ UNCHANGED <<connectEnd, exitCode, fault>>
         ELSE /\ connectEnd' = "spawnfail"
              /\ fault' = "FileNotFoundError"
              /\ pc' = "exited"
              /\ exitCode' = UnhandledExit("FileNotFoundError")
              /\ output' = output \o (IF args.debug THEN <<"Connecting", "Command">> ELSE <<>>)
              /\ UNCHANGED <<remoteLog, spc>>
    /\ UNCHANGED <<args, config, tmux, session_name, pairIds, scriptTrace, userShell>>
    /\ UNCHANGED installVars

\* connect_to_session: build the command and start ssh; a process that cannot
\* be started raises into `except Exception`
connect_spawn ==
    /\ pc = "resolved"
    /\ \E started \in Booleans :
         IF started
         THEN /\ remoteLog' = Append(remoteLog, connect_command(session_name.val))
              /\ pc' = "connecting"
              /\ spc' = "mkdir"
              /\ output' = output \o (IF args.debug THEN <<"Connecting", "Command">> ELSE <<>>)
              /\ UNCHANGED <<connectEnd, exitCode>>
         ELSE /\ connectEnd' = "spawnfail"
              /\ pc' = "exited"
              /\ exitCode' = {0}
              /\ output' = output \o (IF args.debug THEN <<"Connecting", "Command">> ELSE <<>>)
                                  \o <<"Error connecting">>
              /\ UNCHANGED <<remoteLog, spc>>
    /\ UNCHANGED <<args, config, tmux, session_name, fault, pairIds, scriptTrace, userShell>>
    /\ UNCHANGED installVars

\* what the Python side leaves alone while the remote script runs
ScriptFrame ==
    /\ UNCHANGED <<args, config, tmux, pc, session_name, output, remoteLog, fault,
                   exitCode, connectEnd, pairIds>>
    /\ UNCHANGED installVars

\* mkdir -p ~/.persist-ssh
script_mkdir ==
    /\ pc = "connecting" /\ spc = "mkdir"
    /\ scriptTrace' = Append(scriptTrace, "mkdir")
    /\ spc' = "usershell"
    /\ UNCHANGED userShell
    /\ ScriptFrame

\* USER_SHELL from getent, /bin/bash when empty or not executable
script_user_shell ==
    /\ pc = "connecting" /\ spc = "usershell"
    /\ \E usable \in Booleans :
         userShell' = IF usable THEN "login-shell" ELSE "/bin/bash"
    /\ spc' = "check"
    /\ UNCHANGED scriptTrace
    /\ ScriptFrame

script_check_dtach_install_anyway ==
    /\ pc = "connecting" /\ spc = "check"
    /\ \E present \in Booleans :
         /\ scriptTrace' = Append(scriptTrace,
                                  IF present THEN "test:present" ELSE "test:absent")
         /\ spc' = "install"
    /\ UNCHANGED userShell
    /\ ScriptFrame

\* if command -v dtach: exec dtach -A ...; else the install branch
script_check_dtach ==
    /\ pc = "connecting" /\ spc = "check"
    /\ \E present \in Booleans :
         IF present
         THEN /\ scriptTrace' = scriptTrace \o <<"test:present", "exec:dtach">>
              /\ spc' = "attached"
         ELSE /\ scriptTrace' = Append(scriptTrace, "test:absent")
              /\ spc' = "install"
    /\ UNCHANGED userShell
    /\ ScriptFrame

\* the package-manager chain; without a known manager: exec $USER_SHELL.
\* The install command's status is not tested by the script.
script_install ==
    /\ pc = "connecting" /\ spc = "install"
    /\ \E avail \in SUBSET {PackageManagers[i] : i \in 1..Len(PackageManagers)} :
         IF SelectPackageManager(avail) = "none"
         THEN /\ scriptTrace' = scriptTrace \o <<"install:none", "exec:shell">>
              /\ spc' = "shell"
         ELSE /\ \E status \in {"ok", "fail"} :
                   scriptTrace' = scriptTrace
                       \o <<"manager:" \o SelectPackageManager(avail), "install:" \o status>>
              /\ spc' = "recheck"
    /\ UNCHANGED userShell
    /\ ScriptFrame

script_recheck_attach_anyway ==
    /\ pc = "connecting" /\ spc = "recheck"
    /\ scriptTrace' = Append(scriptTrace, "exec:dtach")
    /\ spc' = "attached"
    /\ UNCHANGED userShell
    /\ ScriptFrame

\* "Check if installation succeeded": command -v dtach again.  A failed
\* install command leaves the helper absent.
script_recheck ==
    /\ pc = "connecting" /\ spc = "recheck"
    /\ \E present \in Booleans :
         /\ (scriptTrace[Len(scriptTrace)] = "install:fail" => ~present)
         /\ IF present
            THEN /\ scriptTrace' = scriptTrace \o <<"test:present", "exec:dtach">>
                 /\ spc' = "attached"
            ELSE /\ scriptTrace' = scriptTrace \o <<"test:absent", "exec:shell">>
                 /\ spc' = "shell"
    /\ UNCHANGED userShell
    /\ ScriptFrame

\* subprocess.run returns: the user detached or the remote shell exited;
\* the return code is not looked at and main() returns
connect_return ==
    /\ pc = "connecting" /\ spc \in {"attached", "shell"}
    /\ connectEnd' = "returned"
    /\ pc' = "exited"
    /\ exitCode' = {0}
    /\ UNCHANGED <<args, config, tmux, session_name, output, remoteLog, fault, pairIds>>
    /\ UNCHANGED scriptVars
    /\ UNCHANGED installVars

\* the transport fails while the script runs: ssh exits 255, subprocess.run
\* returns normally
connect_transport_failure ==
    /\ pc = "connecting"
    /\ connectEnd' = "dropped"
    /\ pc' = "exited"
    /\ exitCode' = {0}
    /\ UNCHANGED <<args, config, tmux, session_name, output, remoteLog, fault, pairIds>>
    /\ UNCHANGED scriptVars
    /\ UNCHANGED installVars

connect_interrupt_unhandled ==
    /\ pc = "connecting"
    /\ connectEnd' = "interrupt"
    /\ fault' = "KeyboardInterrupt"
    /\ pc' = "exited"
    /\ exitCode' = UnhandledExit("KeyboardInterrupt")
    /\ UNCHANGED <<args, config, tmux, session_name, output, remoteLog, pairIds>>
    /\ UNCHANGED scriptVars
    /\ UNCHANGED installVars

\* KeyboardInterrupt inside subprocess.run: except KeyboardInterrupt prints
\* and connect_to_session returns, then main() returns
connect_interrupt ==
    /\ pc = "connecting"
    /\ connectEnd' = "interrupt"
    /\ output' = Append(output, "Disconnected.")
    /\ pc' = "exited"
    /\ exitCode' = {0}
    /\ UNCHANGED <<args, config, tmux, session_name, remoteLog, fault, pairIds>>
    /\ UNCHANGED scriptVars
    /\ UNCHANGED installVars

ScriptStep ==
    \/ script_mkdir
    \/ script_user_shell
    \/ script_check_dtach
    \/ script_install
    \/ script_recheck

Next ==
    \/ list_remote_sessions
    \/ resolve_session_name
    \/ connect_spawn
    \/ ScriptStep
    \/ connect_return
    \/ connect_transport_failure
    \/ connect_interrupt

Spec == Init /\ [][Next]_vars

-----------------------------------------------------------------------------
(* install_dtach(host, config) *)

OsTags == {"ubuntu", "debian", "redhat", "arch", "alpine", "unknown"}

\* the keys of DEFAULT_CONFIG['dtach_install_command']
KnownFamilies == {"ubuntu", "debian", "redhat", "arch", "alpine"}

\* a configured table: the documented one, one with a key left out, an empty one
InstallTables ==
    {[keys |-> k, cmd |-> DEFAULT_INSTALL_COMMANDS] :
        k \in {KnownFamilies, {}} \cup {KnownFamilies \ {f} : f \in KnownFamilies}}

\* pieces of /etc/os-release and uname output
OsFragments ==
    {<<"U","b","u","n","t","u">>, d_e_b_i_a_n, r_h_e_l, <<"C","e","n","t","O","S">>,
     f_e_d_o_r_a, <<"R","e","d">>, <<" ","H","a","t">>, a_r_c_h,
     <<"A","l","p","i","n","e">>, <<"L","i","n","u","x","\n">>}

RECURSIVE Concat(_)
Concat(ss) == IF ss = <<>> THEN <<>> ELSE Head(ss) \o Concat(Tail(ss))

OsTexts == {Concat(fs) : fs \in SeqsUpTo(OsFragments, MaxFrags)}

\* the detection ssh process: cannot start, transport failure, or the text
OsRuns ==
    {Process("FileNotFoundError", 0, <<>>, <<>>), Process("none", 255, <<>>, StderrText)}
    \cup {Process("none", 0, t, <<>>) : t \in OsTexts}

InstallInit ==
    /\ args = [session |-> None, list |-> FALSE, debug |-> FALSE, tmux |-> FALSE]
    /\ config = [keys |-> {}, session_from_tmux_pane |-> FALSE, default_session_name |-> <<>>]
    /\ tmux = NoProcess
    /\ pc = "install_dtach"
    /\ session_name = None
    /\ output = <<>>
    /\ remoteLog = <<>>
    /\ fault = "none"
    /\ exitCode = {}
    /\ connectEnd = "none"
    /\ spc = "idle"
    /\ scriptTrace = <<>>
    /\ userShell = "unset"
    /\ osRun \in OsRuns
    /\ install_commands \in InstallTables
    /\ os_type = "undetected"
    /\ retval = "none"
    /\ installRc = {}
    /\ pairIds = <<>>

InstallFrame ==
    /\ UNCHANGED <<args, config, tmux, session_name, exitCode, connectEnd, pairIds,
                   osRun, install_commands>>
    /\ UNCHANGED scriptVars

OsDetectScript == <<<<"cat /etc/os-release 2>/dev/null || uname">>>>

\* install_dtach, line 129: os_type = detect_remote_os(host)
install_detect_os ==
    /\ pc = "install_dtach"
    /\ LET r == run_ssh_command(osRun) IN
       /\ remoteLog' = IF osRun.raised = "FileNotFoundError" THEN remoteLog
                       ELSE Append(remoteLog, SshCommand("osdetect", FALSE, OsDetectScript))
       /\ IF r.raised # "none"
          THEN /\ fault' = r.raised
               /\ pc' = "raised"
               /\ UNCHANGED os_type
          ELSE /\ os_type' = detect_remote_os(r)
               /\ pc' = "lookup"
               /\ UNCHANGED fault
    /\ UNCHANGED <<output, retval, installRc>>
    /\ InstallFrame

install_lookup_retry ==
    /\ pc = "lookup"
    /\ IF os_type \in install_commands.keys
       THEN \E rc1 \in {0, 1, 255}, rc2 \in {0, 1, 255} :
              LET cmd == SshCommand("install", TRUE, <<<<install_commands.cmd[os_type]>>>>) IN
              /\ remoteLog' = IF rc1 = 0 THEN Append(remoteLog, cmd)
                              ELSE remoteLog \o <<cmd, cmd>>
              /\ output' = output \o <<"Installing dtach", "You may be prompted">>
                     \o <<IF rc1 = 0 \/ rc2 = 0 THEN "dtach installed successfully"
                          ELSE "Failed to install dtach">>
              /\ retval' = IF rc1 = 0 \/ rc2 = 0 THEN "True" ELSE "False"
              /\ installRc' = IF rc1 = 0 THEN {rc1} ELSE {rc2}
       ELSE /\ output' = Append(output, "Don't know how to install dtach")
            /\ retval' = "False"
            /\ UNCHANGED <<remoteLog, installRc>>
    /\ pc' = "returned"
    /\ UNCHANGED <<os_type, fault>>
    /\ InstallFrame

\* install_dtach, lines 131-149: table lookup, one `ssh -t host cmd`, the
\* return code decides
install_lookup ==
    /\ pc = "lookup"
    /\ IF os_type \in install_commands.keys
       THEN \E rc \in {0, 1, 255} :
              /\ remoteLog' = Append(remoteLog,
                     SshCommand("install", TRUE, <<<<install_commands.cmd[os_type]>>>>))
              /\ output' = output \o <<"Installing dtach", "You may be prompted">>
                     \o <<IF rc = 0 THEN "dtach installed successfully"
                          ELSE "Failed to install dtach">>
              /\ retval' = IF rc = 0 THEN "True" ELSE "False"
              /\ installRc' = {rc}
       ELSE /\ output' = Append(output, "Don't know how to install dtach")
            /\ retval' = "False"
            /\ UNCHANGED <<remoteLog, installRc>>
    /\ pc' = "returned"
    /\ UNCHANGED <<os_type, fault>>
    /\ InstallFrame

InstallNext ==
    \/ install_detect_os
    \/ install_lookup

InstallSpec == InstallInit /\ [][InstallNext]_vars

-----------------------------------------------------------------------------
(* two successive calls of connect_to_session(host, session_name) *)

IdChars == {"a", "b", " "}

\* session names: non-empty, no whitespace at either end
SessionIds == {s \in SeqsUpTo(IdChars, MaxIdLen) : s # <<>> /\ strip(s) = s}

PairInit ==
    /\ args = [session |-> None, list |-> FALSE, debug |-> FALSE, tmux |-> FALSE]
    /\ config = [keys |-> {}, session_from_tmux_pane |-> FALSE, default_session_name |-> <<>>]
    /\ tmux = NoProcess
    /\ pc = "connect"
    /\ session_name = None
    /\ output = <<>>
    /\ remoteLog = <<>>
    /\ fault = "none"
    /\ exitCode = {}
    /\ connectEnd = "none"
    /\ spc = "idle"
    /\ scriptTrace = <<>>
    /\ userShell = "unset"
    /\ osRun = NoProcess
    /\ install_commands = NoTable
    /\ os_type = "undetected"
    /\ retval = "none"
    /\ installRc = {}
    /\ pairIds \in SessionIds \X SessionIds

\* connect_to_session for the next name of the pair: the command it builds
\* and hands to ssh
connect_to_session ==
    /\ pc = "connect"
    /\ Len(remoteLog) < Len(pairIds)
    /\ remoteLog' = Append(remoteLog, connect_command(pairIds[Len(remoteLog) + 1]))
    /\ UNCHANGED <<args, config, tmux, pc, session_name, output, fault, exitCode,
                   connectEnd, pairIds>>
    /\ UNCHANGED scriptVars
    /\ UNCHANGED installVars

PairNext == connect_to_session

PairSpec == PairInit /\ [][PairNext]_vars

-----------------------------------------------------------------------------
(* Properties *)

Last(s) == s[Len(s)]
Occurs(x, s) == \E i \in 1..Len(s) : s[i] = x
ConnectStarted == \E i \in 1..Len(remoteLog) : remoteLog[i].kind = "connect"

\* C1: whenever connect is reached with a non-empty --session override, the
\* session name handed to connect is that override, whatever the
\* configuration, the tmux state and the --tmux flag.
C1_OverrideUsedVerbatim ==
    (ConnectStarted /\ Truthy(args.session)) =>
        /\ session_name = Some(args.session.val)
        /\ remoteLog[1] = connect_command(args.session.val)

\* n is raw without its leading and trailing whitespace
IsTrimOf(n, raw) ==
    \E a \in 0..Len(raw), b \in 0..Len(raw) :
        /\ a + Len(n) + b = Len(raw)
        /\ \A k \in 1..a : raw[k] \in Whitespace
        /\ \A k \in (Len(raw) - b + 1)..Len(raw) : raw[k] \in Whitespace
        /\ n = SubSeq(raw, a + 1, a + Len(n))
        /\ n # <<>> => (n[1] \notin Whitespace /\ n[Len(n)] \notin Whitespace)

DerivationRequested ==
    \/ args.tmux
    \/ ("session_from_tmux_pane" \in config.keys /\ config.session_from_tmux_pane)

TmuxYieldsName ==
    /\ tmux.raised = "none"
    /\ tmux.returncode = 0
    /\ \E k \in 1..Len(tmux.stdout) : tmux.stdout[k] \notin Whitespace

ConfiguredDefault ==
    IF "default_session_name" \in config.keys THEN config.default_session_name
    ELSE DEFAULT_SESSION_NAME

\* C2: with no (non-empty) override the resolved name is the tmux window
\* name when derivation is configured or forced and tmux yields a non-empty
\* name, and the configured default otherwise; no tmux state aborts the run.
C2_ResolvedWithoutOverride ==
    (session_name.some /\ ~Truthy(args.session)) =>
        /\ fault = "none"
        /\ IF DerivationRequested /\ TmuxYieldsName
           THEN session_name.val # <<>> /\ IsTrimOf(session_name.val, tmux.stdout)
           ELSE session_name.val = ConfiguredDefault

C2_Witness ==
    /\ pc = "connecting"
    /\ args.session = None
    /\ tmux.stdout = <<"w", "\n">>
    /\ session_name = Some(<<"w">>)

InstallRequiredAndFailed ==
    /\ Occurs("test:absent", scriptTrace)
    /\ Occurs("install:fail", scriptTrace) \/ Occurs("install:none", scriptTrace)

\* C3 as claimed: the exit code is non-zero exactly in the runs where the
\* helper was missing and the required install failed.
C3_ExitCodeReflectsInstall ==
    (pc = "exited" /\ fault = "none") =>
        (exitCode # {0} <=> InstallRequiredAndFailed)

\* C3 as amended: every run that reaches the connect step exits with code
\* zero, also when the helper was missing and the in-script install failed.
C3_ConnectRunsExitZero ==
    (pc = "exited" /\ session_name.some) => exitCode = {0}

C3_Witness ==
    /\ pc = "exited"
    /\ connectEnd = "returned"
    /\ InstallRequiredAndFailed
    /\ Occurs("install:fail", scriptTrace)
    /\ exitCode = {0}

ScriptPositions ==
    {"idle", "mkdir", "usershell", "check", "install", "recheck", "attached", "shell"}

ScriptEnded == spc \in {"attached", "shell"}

C5_PathPerIdentifier ==
    Len(remoteLog) = 2 =>
        LET p1 == DtachSocket(remoteLog[1].script[2])
            p2 == DtachSocket(remoteLog[2].script[2])
        IN  /\ pairIds[1] = pairIds[2] => p1 = p2
            /\ pairIds[1] # pairIds[2] => p1 # p2
            /\ \A c \in 1..2 :
                 /\ DtachSocket(remoteLog[c].script[2]) = SessionPath(pairIds[c])
                 /\ DtachSocket(remoteLog[c].script[3]) = SessionPath(pairIds[c])

\* C6: an interrupt during the blocking connect is caught: "Disconnected."
\* is printed, the exit code is zero, no exception leaves main() and the
\* connect command stays the only remote command issued.
C6_InterruptHandled ==
    connectEnd = "interrupt" =>
        /\ fault = "none"
        /\ pc = "exited"
        /\ exitCode = {0}
        /\ output # <<>> /\ Last(output) = "Disconnected."
        /\ remoteLog = <<connect_command(session_name.val)>>

C6_Witness ==
    /\ connectEnd = "interrupt"
    /\ spc = "attached"
    /\ exitCode = {0}

\* C7: a transport that cannot be started never leaves main() as an
\* unhandled exception.
C7_NoUnhandledTransportFault == fault # "FileNotFoundError"

FamilyOrder == <<"ubuntu", "debian", "redhat", "arch", "alpine">>

FamilyKeywords(f) ==
    CASE f = "ubuntu" -> {u_b_u_n_t_u}
      [] f = "debian" -> {d_e_b_i_a_n}
      [] f = "redhat" -> {r_h_e_l, c_e_n_t_o_s, f_e_d_o_r_a, r_e_d_h_a_t}
      [] f = "arch"   -> {a_r_c_h}
      [] f = "alpine" -> {a_l_p_i_n_e}

SameLetter(c, k) ==
    c = k \/ \E i \in 1..Len(LowerCase) : LowerCase[i] = k /\ UpperCase[i] = c

\* kw occurs in text, letters compared without case
OccursNoCase(kw, text) ==
    \E i \in 1..(Len(text) - Len(kw) + 1) :
        \A k \in 1..Len(kw) : SameLetter(text[i + k - 1], kw[k])

FamilyOccurs(f, text) == \E kw \in FamilyKeywords(f) : OccursNoCase(kw, text)

\* C8: the classification is one of the six tags: the first family, in the
\* order ubuntu, debian, redhat, arch, alpine, one of whose keywords occurs
\* in the text without regard to case, and unknown when none occurs.
C8_FirstMatchWins ==
    (pc \in {"lookup", "returned"} /\ osRun.returncode = 0) =>
        /\ os_type \in OsTags
        /\ \A i \in 1..Len(FamilyOrder) :
             os_type = FamilyOrder[i] <=>
                 /\ FamilyOccurs(FamilyOrder[i], osRun.stdout)
                 /\ \A j \in 1..(i - 1) : ~FamilyOccurs(FamilyOrder[j], osRun.stdout)
        /\ os_type = "unknown" <=>
             \A i \in 1..Len(FamilyOrder) : ~FamilyOccurs(FamilyOrder[i], osRun.stdout)

C8_Witness ==
    /\ pc = "lookup"
    /\ FamilyOccurs("debian", osRun.stdout)
    /\ FamilyOccurs("ubuntu", osRun.stdout)
    /\ os_type = "ubuntu"

InstallSteps ==
    {"install:ok", "install:fail", "install:none"}
    \cup {"manager:" \o PackageManagers[i] : i \in 1..Len(PackageManagers)}

InstallCommandsRun == {i \in 1..Len(remoteLog) : remoteLog[i].kind = "install"}

====
